---- MODULE Spec2Model ----
(***************************************************************************)
(* Model of reverse.c: a program that reads its input file line by line,   *)
(* reverses each line in a reused getline() buffer and prints the buffer   *)
(* to the output file.                                                     *)
(*                                                                         *)
(* Memory is modelled at the granularity of bytes.  A cell of the line     *)
(* buffer is a record [b |-> byte value, o |-> number of the input line    *)
(* whose read stored the byte, 0 for a byte no read of this run stored].   *)
(* C index i of the buffer is element i+1 of the sequence buf.             *)
(***************************************************************************)
EXTENDS Integers, Sequences, FiniteSets, TLC

VARIABLES
    pc,               \* position of main: start, open_in, open_out, loop,
                      \* reverse, output, exit_succ, exited, crashed
    argc,             \* argument count the process was started with
    inOpenable,       \* fopen(argv[1], "r") will succeed
    outOpenable,      \* fopen(argv[2], "w") will succeed
    file,             \* bytes of the input file
    pos,              \* read offset of input_file
    input_file,       \* TRUE iff the global input_file is non-NULL
    output_file,      \* TRUE iff the global output_file is non-NULL
    buf,              \* memory pointed to by input_line_buffer
    input_line_size,  \* allocated size of that memory (0: pointer is NULL)
    line,             \* bytes delivered by the last successful getline
    lineNo,           \* number of lines delivered so far
    scanStop,         \* C index at which the newline scan of reverse_line ended
    out,              \* cells appended to the output stream, with the line
                      \* number w in whose iteration each was written
    outCreated,       \* the output path was created or truncated
    stderr,           \* messages printed on the error stream
    exitStatus,       \* status passed to exit(), -1 while running
    opens,            \* successful fopen calls per stream
    closes,           \* fclose / free calls per resource
    readFault,        \* a getline call failed with an I/O error
    writeFault,       \* an fprintf to the output stream failed
    revCount          \* applications of reverse_line to the current line

vars == <<pc, argc, inOpenable, outOpenable, file, pos, input_file,
          output_file, buf, input_line_size, line, lineNo, scanStop, out,
          outCreated, stderr, exitStatus, opens, closes, readFault,
          writeFault, revCount>>

-----------------------------------------------------------------------------
(* Bounds *)

MaxFileLen == 5
MaxArgc == 5
MinAlloc == 3

-----------------------------------------------------------------------------
(* Bytes *)

NUL == 0
NL == 10

\* the bytes input files are made of: 'a', 'b', a zero byte and the newline
Alphabet == {97, 98, NUL, NL}

\* values an uninitialised heap byte may turn out to hold: a newline, a zero
\* byte, or some other byte ('x')
UninitBytes == {NL, NUL, 120}

Max(a, b) == IF a >= b THEN a ELSE b

RECURSIVE SeqsOfLen(_, _)
SeqsOfLen(S, k) ==
    IF k <= 0 THEN {<<>>}
    ELSE {Append(s, x) : s \in SeqsOfLen(S, k - 1), x \in S}

Files == UNION {SeqsOfLen(Alphabet, k) : k \in 0..MaxFileLen}

Bytes(cells) == [i \in 1..Len(cells) |-> cells[i].b]

Cells(bytes, origin) == [i \in 1..Len(bytes) |-> [b |-> bytes[i], o |-> origin]]

-----------------------------------------------------------------------------
(* libc: getline *)

\* index in f of the last byte of the line that starts at index i
RECURSIVE LineEnd(_, _)
LineEnd(f, i) ==
    IF i >= Len(f) \/ f[i] = NL THEN i ELSE LineEnd(f, i + 1)

\* the bytes getline delivers when the stream offset is p < Len(f)
NextLine(f, p) == SubSeq(f, p + 1, LineEnd(f, p + 1))

\* size of the buffer after getline stored need bytes in a buffer of size cap
NewCap(cap, need) ==
    IF cap = 0
    THEN IF need <= MinAlloc THEN MinAlloc ELSE Max(2 * MinAlloc, need)
    ELSE IF need <= cap THEN cap ELSE Max(2 * cap, need)

-----------------------------------------------------------------------------
(* cleanup, EXIT_ERR, EXIT_SUCC *)

\* a cleanup that closes and frees without looking at the pointers
cleanup_NoNullCheck ==
    closes' = [in  |-> closes.in + 1,
               out |-> closes.out + 1,
               buf |-> closes.buf + 1]

cleanup ==
    closes' = [in  |-> IF input_file THEN closes.in + 1 ELSE closes.in,
               out |-> IF output_file THEN closes.out + 1 ELSE closes.out,
               buf |-> IF input_line_size > 0 THEN closes.buf + 1
                       ELSE closes.buf]

EXIT_ERR ==
    /\ cleanup
    /\ exitStatus' = 1
    /\ pc' = "exited"

EXIT_SUCC ==
    /\ cleanup
    /\ exitStatus' = 0
    /\ pc' = "exited"

-----------------------------------------------------------------------------
(* main: argument check *)

\* an argument check that only rejects too few arguments
args_correct_AtLeast == argc >= 3

args_correct == argc = 3

CheckArgs ==
    /\ pc = "start"
    /\ IF ~args_correct
       THEN /\ stderr' = Append(stderr, [kind |-> "usage", arg |-> "argv0"])
            /\ EXIT_ERR
       ELSE /\ pc' = "open_in"
            /\ UNCHANGED <<stderr, exitStatus, closes>>
    /\ UNCHANGED <<argc, inOpenable, outOpenable, file, pos, input_file,
                   output_file, buf, input_line_size, line, lineNo,
                   scanStop, out, outCreated, opens, readFault, writeFault,
                   revCount>>

-----------------------------------------------------------------------------
(* open(&input_file, argv[1], "r") and open(&output_file, argv[2], "w") *)

\* an open of the input that reports the failure and carries on
OpenInput_NoExit ==
    /\ pc = "open_in"
    /\ IF inOpenable
       THEN /\ input_file' = TRUE
            /\ opens' = [opens EXCEPT !.in = @ + 1]
            /\ UNCHANGED stderr
       ELSE /\ input_file' = FALSE
            /\ stderr' = Append(stderr, [kind |-> "open_error", arg |-> "argv1"])
            /\ UNCHANGED opens
    /\ pc' = "open_out"
    /\ UNCHANGED <<argc, inOpenable, outOpenable, file, pos, output_file,
                   buf, input_line_size, line, lineNo, scanStop, out,
                   outCreated, readFault, writeFault, revCount, exitStatus,
                   closes>>

OpenInput ==
    /\ pc = "open_in"
    /\ IF inOpenable
       THEN /\ input_file' = TRUE
            /\ opens' = [opens EXCEPT !.in = @ + 1]
            /\ pc' = "open_out"
            /\ UNCHANGED <<stderr, exitStatus, closes>>
       ELSE /\ input_file' = FALSE
            /\ stderr' = Append(stderr, [kind |-> "open_error", arg |-> "argv1"])
            /\ EXIT_ERR
            /\ UNCHANGED opens
    /\ UNCHANGED <<argc, inOpenable, outOpenable, file, pos, output_file,
                   buf, input_line_size, line, lineNo, scanStop, out,
                   outCreated, readFault, writeFault, revCount>>

OpenOutput ==
    /\ pc = "open_out"
    /\ IF outOpenable
       THEN /\ output_file' = TRUE
            /\ outCreated' = TRUE
            /\ opens' = [opens EXCEPT !.out = @ + 1]
            /\ pc' = "loop"
            /\ UNCHANGED <<stderr, exitStatus, closes>>
       ELSE /\ output_file' = FALSE
            /\ stderr' = Append(stderr, [kind |-> "open_error", arg |-> "argv2"])
            /\ EXIT_ERR
            /\ UNCHANGED <<opens, outCreated>>
    /\ UNCHANGED <<argc, inOpenable, outOpenable, file, pos, input_file,
                   buf, input_line_size, line, lineNo, scanStop, out,
                   readFault, writeFault, revCount>>

-----------------------------------------------------------------------------
(* get_next_line: the loop condition of main *)

\* getline returned END_OF_INPUT; it has allocated a buffer if there was none
GetlineFails ==
    /\ \E fresh \in SeqsOfLen(UninitBytes,
                              IF input_line_size = 0 THEN MinAlloc ELSE 0) :
          buf' = IF input_line_size = 0 THEN Cells(fresh, 0) ELSE buf
    /\ input_line_size' = NewCap(input_line_size, 1)
    /\ pc' = "exit_succ"
    /\ UNCHANGED <<pos, line, lineNo, revCount>>

\* getline delivered the next line into the (possibly grown) buffer: the
\* line's bytes and a terminating NUL overwrite the front of the buffer, the
\* bytes behind them keep what they held, newly allocated bytes are
\* uninitialised
GetlineDelivers ==
    LET L == NextLine(file, pos)
        need == Len(L) + 1
        newcap == NewCap(input_line_size, need)
    IN  /\ \E fresh \in SeqsOfLen(UninitBytes,
                                  newcap - Max(need, input_line_size)) :
              buf' = Cells(L, lineNo + 1)
                     \o <<[b |-> NUL, o |-> lineNo + 1]>>
                     \o SubSeq(buf, need + 1, input_line_size)
                     \o Cells(fresh, 0)
        /\ input_line_size' = newcap
        /\ pos' = pos + Len(L)
        /\ line' = L
        /\ lineNo' = lineNo + 1
        /\ revCount' = 0
        /\ pc' = "reverse"

GetNextLine ==
    /\ pc = "loop"
    /\ IF input_file
       THEN \/ /\ pos < Len(file)
               /\ GetlineDelivers
               /\ UNCHANGED readFault
            \/ /\ pos = Len(file)
               /\ GetlineFails
               /\ UNCHANGED readFault
            \/ /\ GetlineFails
               /\ readFault' = TRUE
       ELSE /\ pc' = "exit_succ"
            /\ UNCHANGED <<buf, input_line_size, pos, line, lineNo,
                           revCount, readFault>>
    /\ UNCHANGED <<argc, inOpenable, outOpenable, file, input_file,
                   output_file, scanStop, out, outCreated, stderr,
                   exitStatus, opens, closes, writeFault>>

-----------------------------------------------------------------------------
(* reverse_line *)

\* while (*right != '\n') right++;  over memory m, from C index right.
\* The result is the C index of the first newline, or -1 when the scan
\* leaves m without meeting one.
RECURSIVE ScanNewline(_, _)
ScanNewline(m, right) ==
    IF right >= Len(m) THEN -1
    ELSE IF m[right + 1].b = NL THEN right
    ELSE ScanNewline(m, right + 1)

\* while (left < right) { swap; left++; right--; }
RECURSIVE SwapLoop(_, _, _)
SwapLoop(m, left, right) ==
    IF left < right
    THEN SwapLoop([m EXCEPT ![left + 1] = m[right + 1],
                            ![right + 1] = m[left + 1]],
                  left + 1, right - 1)
    ELSE m

\* What reverse_line does to the buffer.  When the buffer holds no newline
\* the scan reads past the allocation, which is undefined: either the
\* process is killed, or the byte behind the buffer happens to be a newline
\* and the scan stops there.
ReverseLineStep(next) ==
    LET k == ScanNewline(buf, 0)
    IN  IF k # -1
        THEN /\ buf' = SwapLoop(buf, 0, k - 1)
             /\ scanStop' = k
             /\ pc' = next
        ELSE \/ /\ buf' = SwapLoop(buf, 0, input_line_size - 1)
                /\ scanStop' = input_line_size
                /\ pc' = next
             \/ /\ pc' = "crashed"
                /\ scanStop' = input_line_size
                /\ UNCHANGED buf

ReverseLine ==
    /\ pc = "reverse"
    /\ ReverseLineStep("output")
    /\ revCount' = revCount + 1
    /\ UNCHANGED <<argc, inOpenable, outOpenable, file, pos, input_file,
                   output_file, input_line_size, line, lineNo, out,
                   outCreated, stderr, exitStatus, opens, closes, readFault,
                   writeFault>>

-----------------------------------------------------------------------------
(* output_line *)

\* the cells fprintf("%s") prints from memory m, starting at element i:
\* everything before the first NUL
RECURSIVE CString(_, _)
CString(m, i) ==
    IF i > Len(m) \/ m[i].b = NUL THEN <<>>
    ELSE <<m[i]>> \o CString(m, i + 1)

Printed(m, w) ==
    LET s == CString(m, 1)
    IN  [i \in 1..Len(s) |-> [b |-> s[i].b, o |-> s[i].o, w |-> w]]

OutputLine ==
    /\ pc = "output"
    /\ IF input_line_size > 0 /\ output_file
       THEN \/ /\ out' = out \o Printed(buf, lineNo)
               /\ UNCHANGED writeFault
            \/ /\ ~writeFault
               /\ writeFault' = TRUE
               /\ UNCHANGED out
       ELSE UNCHANGED <<out, writeFault>>
    /\ pc' = "loop"
    /\ UNCHANGED <<argc, inOpenable, outOpenable, file, pos, input_file,
                   output_file, buf, input_line_size, line, lineNo,
                   scanStop, outCreated, stderr, exitStatus, opens, closes,
                   readFault, revCount>>

-----------------------------------------------------------------------------
(* main: EXIT_SUCC after the loop *)

ExitSucc ==
    /\ pc = "exit_succ"
    /\ EXIT_SUCC
    /\ UNCHANGED <<argc, inOpenable, outOpenable, file, pos, input_file,
                   output_file, buf, input_line_size, line, lineNo,
                   scanStop, out, outCreated, stderr, opens, readFault,
                   writeFault, revCount>>

-----------------------------------------------------------------------------
(* The program *)

Init ==
    /\ pc = "start"
    /\ argc \in 1..MaxArgc
    /\ inOpenable \in BOOLEAN
    /\ outOpenable \in BOOLEAN
    /\ file \in Files
    /\ pos = 0
    /\ input_file = FALSE
    /\ output_file = FALSE
    /\ buf = <<>>
    /\ input_line_size = 0
    /\ line = <<>>
    /\ lineNo = 0
    /\ scanStop = 0
    /\ out = <<>>
    /\ outCreated = FALSE
    /\ stderr = <<>>
    /\ exitStatus = -1
    /\ opens = [in |-> 0, out |-> 0]
    /\ closes = [in |-> 0, out |-> 0, buf |-> 0]
    /\ readFault = FALSE
    /\ writeFault = FALSE
    /\ revCount = 0

Next ==
    \/ CheckArgs
    \/ OpenInput
    \/ OpenOutput
    \/ GetNextLine
    \/ ReverseLine
    \/ OutputLine
    \/ ExitSucc

Spec == Init /\ [][Next]_vars

-----------------------------------------------------------------------------
(* The program with a harness that applies reverse_line a second time to    *)
(* the line it has just reversed                                            *)

ReverseAgain ==
    /\ pc = "output"
    /\ revCount = 1
    /\ ReverseLineStep("reversed_twice")
    /\ revCount' = revCount + 1
    /\ UNCHANGED <<argc, inOpenable, outOpenable, file, pos, input_file,
                   output_file, input_line_size, line, lineNo, out,
                   outCreated, stderr, exitStatus, opens, closes, readFault,
                   writeFault>>

NextRev ==
    \/ Next
    \/ ReverseAgain

SpecRev == Init /\ [][NextRev]_vars

-----------------------------------------------------------------------------
(* What the properties are stated against *)

\* the lines of a file: maximal runs up to and including a newline, or up to
\* the end of the file
RECURSIVE LinesFrom(_, _)
LinesFrom(f, p) ==
    IF p >= Len(f) THEN <<>>
    ELSE <<NextLine(f, p)>> \o LinesFrom(f, p + Len(NextLine(f, p)))

LinesOf(f) == LinesFrom(f, 0)

Mirror(s) == [i \in 1..Len(s) |-> s[Len(s) + 1 - i]]

\* content characters reversed, a trailing newline kept last
Reversal(L) ==
    IF Len(L) > 0 /\ L[Len(L)] = NL
    THEN Mirror(SubSeq(L, 1, Len(L) - 1)) \o <<NL>>
    ELSE Mirror(L)

\* the bytes written to the output in the iteration of line i
WrittenFor(i) == Bytes(SelectSeq(out, LAMBDA c : c.w = i))

\* the first n bytes of the buffer, n the length of the delivered line
LineInBuffer == Bytes(SubSeq(buf, 1, Len(line)))

-----------------------------------------------------------------------------
(* Properties *)

\* C1: a run that exits with status 0 without an I/O fault has read every
\* line of the input file and has written, for each i, the reversal of the
\* i-th line in the iteration of line i, so that the output is the
\* reversals of the lines in their original order.
C1_EveryLineReversedOnceInOrder ==
    (pc = "exited" /\ exitStatus = 0 /\ ~readFault /\ ~writeFault)
        => /\ lineNo = Len(LinesOf(file))
           /\ \A i \in 1..Len(LinesOf(file)) :
                 WrittenFor(i) = Reversal(LinesOf(file)[i])
           /\ \A j \in 1..(Len(out) - 1) : out[j].w <= out[j + 1].w

\* C2: reverse_line never kills the process, and once it has run the
\* buffer holds the reversal of the delivered line (a trailing newline kept
\* last, a line without newline reversed whole) followed by the terminator,
\* so that no newline is added to a line that had none.
C2_NewlinePreservation ==
    /\ pc # "crashed"
    /\ (pc = "output" /\ revCount = 1)
          => /\ LineInBuffer = Reversal(line)
             /\ buf[Len(line) + 1].b = NUL

\* C3: every output_line step whose write does not fail appends exactly the
\* n bytes of the reversed line held in the buffer after everything written
\* before.
C3_OutputAppendsWholeLine ==
    [][(pc = "output" /\ pc' = "loop" /\ writeFault' = writeFault)
          => Bytes(out') = Bytes(out) \o LineInBuffer]_vars

\* C4: a run in which a read or a write failed does not exit with status 0.
C4_IOFaultIsFatal ==
    (pc = "exited" /\ (readFault \/ writeFault)) => exitStatus # 0

\* C5: no stream is closed that was not opened, none is closed twice, the
\* buffer is freed at most once and only if allocated, and when the process
\* has exited every opened stream and the allocated buffer have been
\* released exactly once.
C5_ReleasedExactlyOnce ==
    /\ closes.in <= opens.in
    /\ closes.out <= opens.out
    /\ closes.buf <= (IF input_line_size > 0 THEN 1 ELSE 0)
    /\ pc = "exited"
          => /\ closes.in = opens.in
             /\ closes.out = opens.out
             /\ closes.buf = (IF input_line_size > 0 THEN 1 ELSE 0)

\* C5 witness: the run exited after the output could not be opened, and the
\* input opened before it has been closed.
C5_Witness ==
    /\ pc = "exited"
    /\ opens.in = 1
    /\ opens.out = 0
    /\ closes.in = 1
    /\ closes.out = 0

\* C6: with two arguments, when the input or the output cannot be opened
\* the loop is never entered, no line is read, reversed or written, the run
\* ends with a non-zero status and exactly one message naming the failing
\* path; when it is the input that cannot be opened the output is never
\* opened, created or truncated.
C6_OpenFailureBeforeLoop ==
    (argc = 3 /\ (~inOpenable \/ ~outOpenable))
        => /\ pc \in {"start", "open_in", "open_out", "exited"}
           /\ lineNo = 0 /\ pos = 0 /\ revCount = 0 /\ out = <<>>
           /\ pc = "exited"
                 => /\ exitStatus # 0
                    /\ stderr = <<[kind |-> "open_error",
                                   arg |-> IF ~inOpenable THEN "argv1"
                                           ELSE "argv2"]>>
           /\ ~inOpenable => (opens.out = 0 /\ ~outCreated /\ ~output_file)

\* C6 witness: the run has exited on an input path that cannot be opened,
\* although the output path could have been.
C6_Witness ==
    /\ pc = "exited"
    /\ argc = 3
    /\ ~inOpenable
    /\ outOpenable
    /\ exitStatus = 1
    /\ Len(stderr) = 1

\* C7: with an argument count other than 3 the run only prints the usage
\* message and exits non-zero: no stream is opened, the output is not
\* created, no line is processed; with an argument count of 3 no usage
\* message is printed.
C7_UsageError ==
    /\ argc # 3
          => /\ pc \in {"start", "exited"}
             /\ opens = [in |-> 0, out |-> 0]
             /\ ~input_file /\ ~output_file /\ ~outCreated
             /\ lineNo = 0 /\ pos = 0 /\ out = <<>>
             /\ pc = "exited"
                   => /\ exitStatus # 0
                      /\ stderr = <<[kind |-> "usage", arg |-> "argv0"]>>
    /\ argc = 3
          => \A j \in 1..Len(stderr) : stderr[j].kind # "usage"

\* C7 witness: a run started with three positional arguments has exited
\* after the usage message, where both paths could have been opened.
C7_Witness ==
    /\ pc = "exited"
    /\ argc = 4
    /\ inOpenable
    /\ outOpenable
    /\ exitStatus = 1
    /\ stderr = <<[kind |-> "usage", arg |-> "argv0"]>>

\* C8: reverse_line never kills the process, applying it twice to a
\* delivered line leaves the line as delivered, and applying it once to a
\* line that is only a newline leaves it unchanged.
C8_DoubleReversalIsIdentity ==
    /\ pc # "crashed"
    /\ pc = "reversed_twice" => LineInBuffer = line
    /\ (pc = "output" /\ revCount = 1 /\ line = <<NL>>) => LineInBuffer = line

\* C9: reverse_line never kills the process, and its newline scan stops
\* inside the delivered line, at a C index below the line's length.
C9_ScanStaysInsideLine ==
    /\ pc # "crashed"
    /\ (revCount >= 1 /\ pc \in {"output", "reversed_twice"})
          => scanStop <= Len(line) - 1

\* C10: no byte that the read of an earlier line stored is written in the
\* iteration of a later line.
C10_NoEarlierLineInLaterOutput ==
    \A j \in 1..Len(out) : out[j].o # 0 => out[j].o = out[j].w

====
